---- MODULE Spec2Model ----
(***************************************************************************)
(* Model of streamlit_app.py: the Gujarati news finder (image-vision       *)
(* variant).  A session reruns the script main() on every interaction;     *)
(* main() reloads the cache from data/processed_cache.json, indexes the    *)
(* PDF files of data/, and on a button press searches the selected files   *)
(* page by page through the vision API, caching each result under          *)
(* f"{pdf_path}_{tag}" and rewriting the whole cache file.                 *)
(*                                                                         *)
(* Strings are sequences of characters.  A character is a one-letter       *)
(* string, one of the named characters DQ (double quote), BS (backslash),  *)
(* NL (line feed), or an atom of ordinary characters ("data/", ".pdf").    *)
(***************************************************************************)
EXTENDS Integers, Sequences, FiniteSets, TLC

(* ---------------------------- bounds ---------------------------------- *)
MaxPages == 2      \* a PDF has 1..MaxPages pages
MaxRuns == 3       \* script runs per session
MaxLen == 2        \* length of the keys and values of the round-trip check
MaxKeyLen == 3     \* length of the file stems and tags of the key check

(* ---------------------------- characters ------------------------------ *)
DQ == "dq"
BS == "bs"
NL == "nl"
SP == " "

(* Python values: None, or a str *)
NoneVal == [some |-> FALSE, text |-> <<>>]
Str(t) == [some |-> TRUE, text |-> t]
\* a test for None in place of the truthiness test
TruthyNotNone(r) == r.some

\* truthiness of an Optional[str]: None and "" are falsy
Truthy(r) == r.some /\ r.text # <<>>

RECURSIVE Concat(_)
Concat(ss) == IF ss = <<>> THEN <<>> ELSE Head(ss) \o Concat(Tail(ss))

\* the join taken from the last result to the first
RECURSIVE JoinBackwards(_)
JoinBackwards(ss) ==
  IF ss = <<>> THEN <<>>
  ELSE IF Len(ss) = 1 THEN ss[1]
  ELSE JoinBackwards(Tail(ss)) \o <<NL>> \o ss[1]

\* "\n".join(all_results)
RECURSIVE Join(_)
Join(ss) ==
  IF ss = <<>> THEN <<>>
  ELSE IF Len(ss) = 1 THEN ss[1]
  ELSE ss[1] \o <<NL>> \o Join(Tail(ss))

(* ---------------------------- cache key ------------------------------- *)
\* str(pdf_path) for a file of DATA_DIR
PathOf(name) == <<"data/">> \o name

\* cache_key = f"{pdf_path}_{tag}"
CacheKey(path, tag) == path \o <<"_">> \o tag

(* ------------- the cache: a dict, kept in insertion order ------------- *)
Keys(c) == {c[i][1] : i \in DOMAIN c}
Has(c, k) == k \in Keys(c)
Get(c, k) == c[CHOOSE i \in DOMAIN c : c[i][1] = k][2]
\* a store that starts the dict afresh
PutAlone(c, k, v) == << <<k, v>> >>

\* c[k] = v: replaces the value of an existing key in place, else appends
Put(c, k, v) ==
  IF Has(c, k)
  THEN [i \in DOMAIN c |-> IF c[i][1] = k THEN <<k, v>> ELSE c[i]]
  ELSE Append(c, <<k, v>>)

(* ---------------------------- JSON ------------------------------------ *)
\* an escaping that forgets the backslash
EscapeCharRaw(ch) ==
  IF ch = DQ THEN <<BS, DQ>>
  ELSE IF ch = NL THEN <<BS, "n">>
  ELSE <<ch>>

\* json string escaping with ensure_ascii=False
EscapeChar(ch) ==
  IF ch = DQ THEN <<BS, DQ>>
  ELSE IF ch = BS THEN <<BS, BS>>
  ELSE IF ch = NL THEN <<BS, "n">>
  ELSE <<ch>>

Escape(s) == Concat([i \in DOMAIN s |-> EscapeChar(s[i])])

JsonString(s) == <<DQ>> \o Escape(s) \o <<DQ>>

\* one "key": "value" item at indent 2
JsonItem(kv) == <<NL, SP, SP>> \o JsonString(kv[1]) \o <<":", SP>> \o JsonString(kv[2])

RECURSIVE JsonItems(_)
JsonItems(c) ==
  IF Len(c) = 1 THEN JsonItem(c[1])
  ELSE JsonItem(c[1]) \o <<",">> \o JsonItems(Tail(c))

\* json.dump(cache, f, ensure_ascii=False, indent=2)
Dump(c) ==
  IF c = <<>> THEN <<"{", "}">>
  ELSE <<"{">> \o JsonItems(c) \o <<NL, "}">>

IsWs(ch) == ch \in {NL, SP}

RECURSIVE SkipWs(_, _)
SkipWs(s, i) == IF i <= Len(s) /\ IsWs(s[i]) THEN SkipWs(s, i + 1) ELSE i

ParseError == [ok |-> FALSE, val |-> <<>>, next |-> 0]

\* the body of a JSON string from position i (after the opening quote)
RECURSIVE ScanString(_, _, _)
ScanString(s, i, acc) ==
  IF i > Len(s) THEN ParseError
  ELSE IF s[i] = DQ THEN [ok |-> TRUE, val |-> acc, next |-> i + 1]
  ELSE IF s[i] = NL THEN ParseError
  ELSE IF s[i] = BS THEN
    IF i + 1 > Len(s) THEN ParseError
    ELSE IF s[i + 1] = DQ THEN ScanString(s, i + 2, Append(acc, DQ))
    ELSE IF s[i + 1] = BS THEN ScanString(s, i + 2, Append(acc, BS))
    ELSE IF s[i + 1] = "n" THEN ScanString(s, i + 2, Append(acc, NL))
    ELSE ParseError
  ELSE ScanString(s, i + 1, Append(acc, s[i]))

ParseString(s, i) ==
  IF i <= Len(s) /\ s[i] = DQ THEN ScanString(s, i + 1, <<>>) ELSE ParseError

\* the items of a JSON object from position i (at the first key), up to "}"
RECURSIVE ParseItems(_, _, _)
ParseItems(s, i, acc) ==
  LET k == ParseString(s, i)
      j == SkipWs(s, k.next)
      v == ParseString(s, SkipWs(s, j + 1))
      e == SkipWs(s, v.next)
  IN IF ~k.ok THEN ParseError
     ELSE IF j > Len(s) \/ s[j] # ":" THEN ParseError
     ELSE IF ~v.ok THEN ParseError
     ELSE IF e > Len(s) THEN ParseError
     ELSE IF s[e] = "}" THEN [ok |-> TRUE, val |-> Put(acc, k.val, v.val), next |-> e + 1]
     ELSE IF s[e] = "," THEN ParseItems(s, SkipWs(s, e + 1), Put(acc, k.val, v.val))
     ELSE ParseError

\* json.load(f) of a file holding an object of strings
Parse(s) ==
  LET i == SkipWs(s, 1)
      j == SkipWs(s, i + 1)
      r == IF j <= Len(s) /\ s[j] = "}"
           THEN [ok |-> TRUE, val |-> <<>>, next |-> j + 1]
           ELSE ParseItems(s, j, <<>>)
  IN IF i > Len(s) \/ s[i] # "{" THEN ParseError
     ELSE IF ~r.ok THEN ParseError
     ELSE IF SkipWs(s, r.next) <= Len(s) THEN ParseError
     ELSE r

(* ---------------------------- file system ----------------------------- *)
Absent == [exists |-> FALSE, text |-> <<>>]
FileOf(t) == [exists |-> TRUE, text |-> t]

\* a load that forgets what the file holds
load_cache_empty(f) == [raised |-> FALSE, val |-> <<>>]

\* a load that opens the file without asking whether it exists
load_cache_unguarded(f) ==
  LET r == Parse(f.text)
  IN IF f.exists /\ r.ok THEN [raised |-> FALSE, val |-> r.val]
     ELSE [raised |-> TRUE, val |-> <<>>]

\* load_cache(): the mapping of the cache file, {} when there is no file;
\* json.load raises on a file that is not a JSON document
load_cache(f) ==
  IF f.exists
  THEN LET r == Parse(f.text)
       IN IF r.ok THEN [raised |-> FALSE, val |-> r.val]
          ELSE [raised |-> TRUE, val |-> <<>>]
  ELSE [raised |-> FALSE, val |-> <<>>]

\* how a write of the cache file can end
SaveOutcomes == {"ok", "open_failed", "write_failed"}

RECURSIVE PutAll(_, _)
PutAll(c, d) == IF d = <<>> THEN c ELSE PutAll(Put(c, d[1][1], d[1][2]), Tail(d))

\* a save that merges the in-memory cache into what the file holds
save_cache_merge(c, f, outcome) ==
  LET r == Parse(f.text)
      old == IF f.exists /\ r.ok THEN r.val ELSE <<>>
  IN IF outcome = "ok" THEN [raised |-> FALSE, file |-> FileOf(Dump(PutAll(old, c)))]
     ELSE IF outcome = "open_failed" THEN [raised |-> TRUE, file |-> f]
     ELSE [raised |-> TRUE, file |-> FileOf(<<>>)]

\* save_cache(): os.makedirs, then open(CACHE_FILE, 'w') truncates the file
\* and json.dump writes the whole in-memory cache
save_cache(c, f, outcome) ==
  IF outcome = "ok" THEN [raised |-> FALSE, file |-> FileOf(Dump(c))]
  ELSE IF outcome = "open_failed" THEN [raised |-> TRUE, file |-> f]
  ELSE [raised |-> TRUE, file |-> FileOf(<<>>)]

(* ---------------------------- the data -------------------------------- *)
Sessions == {1, 2}
Solo == {1}

\* file names of data/*.pdf
Names == {<<"a", ".pdf">>, <<"b", ".pdf">>}
\* what the user can type in the tag box: nothing, or a tag
Tags == {<<>>, <<"c">>}
\* the text the model finds on page i
PageText(i) == <<<<"x">>, <<"y">>, <<"z">>, <<"w">>>>[i]
\* what the API call for page i can yield: an exception (raised), an empty
\* text, or the text of the page
Responses(i) ==
  { [raised |-> TRUE, text |-> <<>>],
    [raised |-> FALSE, text |-> <<>>],
    [raised |-> FALSE, text |-> PageText(i)] }

\* the selections a multiselect over the options can return
Selections(opts) ==
  {<<>>} \cup {<<n>> : n \in opts}
         \cup {<<n, m>> : <<n, m>> \in {p \in opts \X opts : p[1] # p[2]}}

VARIABLES
  dirExists,   \* DATA_DIR.exists()
  pdfs,        \* the names of the PDF files in data/
  file,        \* data/processed_cache.json
  pc,          \* per session: where the script run is
  runs,        \* per session: script runs started
  cache,       \* st.session_state.processed_cache
  indexed,     \* the keys of st.session_state.indexed_files
  tag,         \* search_tag, as the button press read it
  queue,       \* selected_files, as the button press read it, less the
               \* files the loop is done with
  page,        \* process_pdf: 1 + the loop index i
  total,       \* process_pdf: total_pages
  all_results, \* process_pdf: all_results
  ret,         \* the value process_pdf returned
  banners,     \* the messages the run has shown
  uncaught,    \* the run ended with an exception nothing caught
  reqs,        \* history: the pages the current process_pdf sent to the API
  resps,       \* history: what each of those requests yielded
  last,        \* history: how the latest process_pdf call went
  missingRun,  \* history: the run started with data/ missing
  saved,       \* history: <<path, tag, result>> stored and written to the file
  probe        \* the inputs and outputs of the pure-function checks

shared == <<dirExists, pdfs, file>>
session == <<pc, runs, cache, indexed, tag, queue, page, total, all_results,
             ret, banners, uncaught>>
history == <<reqs, resps, last, missingRun, saved>>
vars == <<shared, session, history, probe>>

NoCall == [kind |-> "none", path |-> <<>>, tag |-> <<>>]

InitMain ==
  /\ dirExists \in BOOLEAN
  /\ pdfs = IF dirExists THEN Names ELSE {}
  /\ file = Absent
  /\ pc = [s \in Sessions |-> "idle"]
  /\ runs = [s \in Sessions |-> 0]
  /\ cache = [s \in Sessions |-> <<>>]
  /\ indexed = [s \in Sessions |-> {}]
  /\ tag = [s \in Sessions |-> <<>>]
  /\ queue = [s \in Sessions |-> <<>>]
  /\ page = [s \in Sessions |-> 1]
  /\ total = [s \in Sessions |-> 1]
  /\ all_results = [s \in Sessions |-> <<>>]
  /\ ret = [s \in Sessions |-> NoneVal]
  /\ banners = [s \in Sessions |-> {}]
  /\ uncaught = [s \in Sessions |-> FALSE]
  /\ reqs = [s \in Sessions |-> <<>>]
  /\ resps = [s \in Sessions |-> <<>>]
  /\ last = [s \in Sessions |-> NoCall]
  /\ missingRun = [s \in Sessions |-> FALSE]
  /\ saved = {}

Init == InitMain /\ probe = [pc |-> "off"]

Show_(s, b) == banners' = [banners EXCEPT ![s] = @ \cup {b}]

\* the script starts: main() reloads the cache and indexes the PDF files
StartRun(s) ==
  /\ pc[s] = "idle"
  /\ runs[s] < MaxRuns
  /\ runs' = [runs EXCEPT ![s] = @ + 1]
  /\ banners' = [banners EXCEPT ![s] = {}]
  /\ missingRun' = [missingRun EXCEPT ![s] = ~dirExists]
  /\ tag' = [tag EXCEPT ![s] = <<>>]
  /\ queue' = [queue EXCEPT ![s] = <<>>]
  /\ LET l == load_cache(file)
     IN IF l.raised
        THEN /\ uncaught' = [uncaught EXCEPT ![s] = TRUE]
             /\ UNCHANGED <<pc, cache, indexed, dirExists>>
        ELSE /\ uncaught' = [uncaught EXCEPT ![s] = FALSE]
             /\ cache' = [cache EXCEPT ![s] = l.val]
             \* index_pdf_files()
             /\ IF ~dirExists
                THEN dirExists' = TRUE /\ UNCHANGED indexed
                ELSE /\ indexed' = [indexed EXCEPT ![s] = @ \cup pdfs]
                     /\ UNCHANGED dirExists
             /\ pc' = [pc EXCEPT ![s] = "main"]
  /\ UNCHANGED <<pdfs, file, page, total, all_results, ret,
                 reqs, resps, last, saved, probe>>

\* the run was triggered by something other than the search button
NoPress(s) ==
  /\ pc[s] = "main"
  /\ pc' = [pc EXCEPT ![s] = "idle"]
  /\ UNCHANGED <<shared, runs, cache, indexed, tag, queue, page, total,
                 all_results, ret, banners, uncaught, history, probe>>

\* a button handler that does not look at the tag
PressNoTagCheck(s, sel, tg) ==
  /\ pc[s] = "main"
  /\ queue' = [queue EXCEPT ![s] = sel]
  /\ tag' = [tag EXCEPT ![s] = tg]
  /\ IF sel = <<>>
     THEN /\ Show_(s, "select_file")
          /\ pc' = [pc EXCEPT ![s] = "idle"]
     ELSE /\ pc' = [pc EXCEPT ![s] = "loop"]
          /\ UNCHANGED banners
  /\ UNCHANGED <<shared, runs, cache, indexed, page, total, all_results, ret,
                 uncaught, history, probe>>

\* the search button was pressed with files sel selected and tag tg typed
Press(s, sel, tg) ==
  /\ pc[s] = "main"
  /\ queue' = [queue EXCEPT ![s] = sel]
  /\ tag' = [tag EXCEPT ![s] = tg]
  /\ IF sel = <<>>
     THEN /\ Show_(s, "select_file")
          /\ pc' = [pc EXCEPT ![s] = "idle"]
     ELSE IF tg = <<>>
     THEN /\ Show_(s, "enter_tag")
          /\ pc' = [pc EXCEPT ![s] = "idle"]
     ELSE /\ pc' = [pc EXCEPT ![s] = "loop"]
          /\ UNCHANGED banners
  /\ UNCHANGED <<shared, runs, cache, indexed, page, total, all_results, ret,
                 uncaught, history, probe>>

CurPath(s) == PathOf(Head(queue[s]))
CurKey(s) == CacheKey(CurPath(s), tag[s])
Call(s, k) == [kind |-> k, path |-> CurPath(s), tag |-> tag[s]]

\* process_pdf: the key is in the cache
CacheHit(s) ==
  /\ pc[s] = "loop"
  /\ Has(cache[s], CurKey(s))
  /\ ret' = [ret EXCEPT ![s] = Str(Get(cache[s], CurKey(s)))]
  /\ pc' = [pc EXCEPT ![s] = "show"]
  /\ last' = [last EXCEPT ![s] = Call(s, "hit")]
  /\ reqs' = [reqs EXCEPT ![s] = <<>>]
  /\ resps' = [resps EXCEPT ![s] = <<>>]
  /\ UNCHANGED <<shared, runs, cache, indexed, tag, queue, page, total,
                 all_results, banners, uncaught, missingRun, saved, probe>>

\* process_pdf: a miss, and fitz.open raises
OpenFail(s) ==
  /\ pc[s] = "loop"
  /\ ~Has(cache[s], CurKey(s))
  /\ Show_(s, "pdf_error")
  /\ ret' = [ret EXCEPT ![s] = NoneVal]
  /\ pc' = [pc EXCEPT ![s] = "show"]
  /\ last' = [last EXCEPT ![s] = Call(s, "open_failed")]
  /\ reqs' = [reqs EXCEPT ![s] = <<>>]
  /\ resps' = [resps EXCEPT ![s] = <<>>]
  /\ UNCHANGED <<shared, runs, cache, indexed, tag, queue, page, total,
                 all_results, uncaught, missingRun, saved, probe>>

\* process_pdf: a miss, and fitz.open returns a document of n pages
OpenOk(s, n) ==
  /\ pc[s] = "loop"
  /\ ~Has(cache[s], CurKey(s))
  /\ Head(queue[s]) \in pdfs
  /\ total' = [total EXCEPT ![s] = n]
  /\ page' = [page EXCEPT ![s] = 1]
  /\ all_results' = [all_results EXCEPT ![s] = <<>>]
  /\ pc' = [pc EXCEPT ![s] = "page"]
  /\ last' = [last EXCEPT ![s] = Call(s, "open")]
  /\ reqs' = [reqs EXCEPT ![s] = <<>>]
  /\ resps' = [resps EXCEPT ![s] = <<>>]
  /\ UNCHANGED <<shared, runs, cache, indexed, tag, queue, ret, banners,
                 uncaught, missingRun, saved, probe>>

\* the page loop: convert_pdf_page_to_image raises
RenderFail(s) ==
  /\ pc[s] = "page"
  /\ page[s] <= total[s]
  /\ Show_(s, "pdf_error")
  /\ ret' = [ret EXCEPT ![s] = NoneVal]
  /\ pc' = [pc EXCEPT ![s] = "show"]
  /\ last' = [last EXCEPT ![s] = Call(s, "render_failed")]
  /\ UNCHANGED <<shared, runs, cache, indexed, tag, queue, page, total,
                 all_results, uncaught, reqs, resps, missingRun,
                 saved, probe>>

\* the result of process_image_with_gpt4_vision for an API outcome
process_image_with_gpt4_vision(r) == IF r.raised THEN NoneVal ELSE Str(r.text)

\* the page loop: one page is rendered and sent, the API yields r
PageCall(s, r) ==
  /\ pc[s] = "page"
  /\ page[s] <= total[s]
  /\ LET result == process_image_with_gpt4_vision(r)
     IN /\ IF r.raised THEN Show_(s, "vision_error") ELSE UNCHANGED banners
        /\ all_results' = [all_results EXCEPT ![s] =
                             IF Truthy(result) THEN Append(@, result.text) ELSE @]
        /\ resps' = [resps EXCEPT ![s] = Append(@, result)]
  /\ reqs' = [reqs EXCEPT ![s] = Append(@, page[s])]
  /\ page' = [page EXCEPT ![s] = @ + 1]
  /\ UNCHANGED <<shared, runs, cache, indexed, tag, queue, total, ret, pc,
                 uncaught, last, missingRun, saved, probe>>

\* after the loop: the joined result is stored and the cache file rewritten
Store(s, outcome) ==
  /\ pc[s] = "page"
  /\ page[s] > total[s]
  /\ LET final_result == Join(all_results[s])
         c == Put(cache[s], CurKey(s), final_result)
         w == save_cache(c, file, outcome)
     IN /\ cache' = [cache EXCEPT ![s] = c]
        /\ dirExists' = TRUE
        /\ file' = w.file
        /\ IF w.raised
           THEN /\ Show_(s, "pdf_error")
                /\ ret' = [ret EXCEPT ![s] = NoneVal]
                /\ last' = [last EXCEPT ![s] = Call(s, "save_failed")]
                /\ UNCHANGED saved
           ELSE /\ ret' = [ret EXCEPT ![s] = Str(final_result)]
                /\ last' = [last EXCEPT ![s] = Call(s, "stored")]
                /\ saved' = saved \cup {<<CurPath(s), tag[s], final_result>>}
                /\ UNCHANGED banners
  /\ pc' = [pc EXCEPT ![s] = "show"]
  /\ UNCHANGED <<pdfs, runs, indexed, tag, queue, page, total, all_results,
                 uncaught, reqs, resps, missingRun, probe>>

\* main: the result of process_pdf is shown, and the loop moves on
Display(s) ==
  /\ pc[s] = "show"
  /\ IF Truthy(ret[s]) THEN Show_(s, "success") ELSE Show_(s, "no_news")
  /\ queue' = [queue EXCEPT ![s] = Tail(@)]
  /\ pc' = [pc EXCEPT ![s] = IF Tail(queue[s]) = <<>> THEN "idle" ELSE "loop"]
  \* the locals of the call are gone
  /\ page' = [page EXCEPT ![s] = 1]
  /\ total' = [total EXCEPT ![s] = 1]
  /\ all_results' = [all_results EXCEPT ![s] = <<>>]
  /\ ret' = [ret EXCEPT ![s] = NoneVal]
  /\ reqs' = [reqs EXCEPT ![s] = <<>>]
  /\ resps' = [resps EXCEPT ![s] = <<>>]
  /\ last' = [last EXCEPT ![s] = NoCall]
  /\ UNCHANGED <<shared, runs, cache, indexed, tag, uncaught,
                 missingRun, saved, probe>>

Step(s) ==
  \/ StartRun(s)
  \/ NoPress(s)
  \/ \E sel \in Selections(indexed[s]), tg \in Tags : Press(s, sel, tg)
  \/ CacheHit(s)
  \/ OpenFail(s)
  \/ \E n \in 1..MaxPages : OpenOk(s, n)
  \/ RenderFail(s)
  \/ \E r \in Responses(page[s]) : PageCall(s, r)
  \/ \E o \in SaveOutcomes : Store(s, o)
  \/ Display(s)

\* one session
Next == \E s \in Solo : Step(s)
Spec == Init /\ [][Next]_vars

\* somebody deletes the data directory, with the PDF files and the cache file
RemoveDataDir ==
  /\ dirExists
  /\ dirExists' = FALSE
  /\ pdfs' = {}
  /\ file' = Absent
  /\ UNCHANGED <<session, history, probe>>

\* one session, and a data directory that can disappear
NextEnv == Next \/ RemoveDataDir
SpecEnv == Init /\ [][NextEnv]_vars

\* two sessions share the cache file; each presses the button with one file
\* selected and the tag "c" typed, and every PDF opens, renders and is written
StepConc(s) ==
  \/ StartRun(s)
  \/ \E n \in indexed[s] : Press(s, <<n>>, <<"c">>)
  \/ CacheHit(s)
  \/ OpenOk(s, 1)
  \/ \E r \in Responses(page[s]) : PageCall(s, r)
  \/ Store(s, "ok")
  \/ Display(s)

NextConc == \E s \in Sessions : StepConc(s)
SpecConc == Init /\ [][NextConc]_vars

(* ------------------- the cache key as a function ---------------------- *)
Strs(chars, n) == UNION {[1..k -> chars] : k \in 0..n}

\* the characters of the stems and tags: the separator of the key, and the
\* suffix that data/*.pdf asks of a file name
KeyChars == {".pdf", "_"}
\* the files data/*.pdf can name, and the tags that reach process_pdf
KeyNames == {st \o <<".pdf">> : st \in Strs(KeyChars, MaxKeyLen) \ {<<>>}}
KeyTags == Strs(KeyChars, MaxKeyLen) \ {<<>>}

InitFixed == InitMain /\ dirExists

\* a first request (path, tag)
InitKey ==
  /\ InitFixed
  /\ probe \in {[pc |-> "key_in", a |-> <<PathOf(n), t>>, b |-> <<>>,
                 ka |-> <<>>, kb |-> <<>>] : n \in KeyNames, t \in KeyTags}

\* a second request, and the keys process_pdf builds for the two
KeyPair(n, t) ==
  /\ probe.pc = "key_in"
  /\ probe' = [pc |-> "keyed", a |-> probe.a, b |-> <<PathOf(n), t>>,
               ka |-> CacheKey(probe.a[1], probe.a[2]),
               kb |-> CacheKey(PathOf(n), t)]
  /\ UNCHANGED <<shared, session, history>>

NextKey == \E n \in KeyNames, t \in KeyTags : KeyPair(n, t)
SpecKey == InitKey /\ [][NextKey]_vars

(* ------------------- save_cache, then load_cache ---------------------- *)
RtChars == {"n", DQ, BS, NL}
RtStrs == Strs(RtChars, MaxLen)
\* the mappings saved: none, one or two items (the second item has a longer
\* key, and the first key as its value)
RtMaps ==
  {<<>>} \cup {<< <<k, v>> >> : k \in RtStrs, v \in RtStrs}
         \cup {<< <<k, v>>, <<k \o <<"n">>, k>> >> : k \in RtStrs, v \in RtStrs}

InitRt ==
  /\ InitFixed
  /\ probe \in {[pc |-> "rt_in", m |-> m, f |-> Absent,
                 out |-> [raised |-> FALSE, val |-> <<>>]] : m \in RtMaps}

\* load_cache() before anything was saved
RtLoadMissing ==
  /\ probe.pc = "rt_in"
  /\ probe' = [probe EXCEPT !.pc = "rt_missing", !.out = load_cache(probe.f)]
  /\ UNCHANGED <<shared, session, history>>

\* save_cache() of the mapping
RtSave ==
  /\ probe.pc = "rt_in"
  /\ probe' = [probe EXCEPT !.pc = "rt_saved",
                            !.f = save_cache(probe.m, probe.f, "ok").file]
  /\ UNCHANGED <<shared, session, history>>

\* load_cache() of what was saved
RtLoad ==
  /\ probe.pc = "rt_saved"
  /\ probe' = [probe EXCEPT !.pc = "rt_loaded", !.out = load_cache(probe.f)]
  /\ UNCHANGED <<shared, session, history>>

NextRt == RtLoadMissing \/ RtSave \/ RtLoad
SpecRt == InitRt /\ [][NextRt]_vars

(* ====================== the claims ==================================== *)
KeyOf(c) == CacheKey(c.path, c.tag)
FileOk(f) == f.exists /\ Parse(f.text).ok
FileMap(f) == Parse(f.text).val
\* every item of c is in d, with the same value
Preserved(c, d) == \A k \in Keys(c) : Has(d, k) /\ Get(d, k) = Get(c, k)
FirstPages(n) == [i \in 1..n |-> i]
\* the responses that are neither None nor empty, joined by line feeds
Kept(rs) == SelectSeq(rs, LAMBDA r : r.some /\ Len(r.text) > 0)
RECURSIVE Glue(_)
Glue(rs) ==
  IF rs = <<>> THEN <<>>
  ELSE LET front == SubSeq(rs, 1, Len(rs) - 1)
       IN IF front = <<>> THEN rs[Len(rs)].text
          ELSE Glue(front) \o <<NL>> \o rs[Len(rs)].text
Expected(rs) == Glue(Kept(rs))
AllFailed(rs) == \A i \in DOMAIN rs : ~rs[i].some \/ rs[i].text = <<>>
\* session s leaves the top of the file loop searching (path, tag)
Searches(s, path, tg) ==
  /\ pc[s] = "loop"
  /\ pc'[s] # "loop"
  /\ CurPath(s) = path
  /\ tag[s] = tg

C2_EmptyTagRejected ==
  [][\A s \in Sessions :
       (pc[s] = "main" /\ pc'[s] # "main" /\ queue'[s] # <<>> /\ tag'[s] = <<>>) =>
         /\ pc'[s] = "idle"
         /\ "enter_tag" \in banners'[s]
         /\ cache' = cache
         /\ file' = file
         /\ reqs' = reqs
         /\ last' = last]_vars

\* a run with a cache to lose has rejected an empty tag
C2_Witness ==
  \E s \in Sessions :
    /\ pc[s] = "idle"
    /\ queue[s] # <<>>
    /\ tag[s] = <<>>
    /\ banners[s] = {"enter_tag"}
    /\ cache[s] # <<>>

ErrorBanners == {"select_file", "enter_tag", "vision_error", "pdf_error", "no_news"}

C4_KeysUnique ==
  (probe.pc = "keyed" /\ probe.a # probe.b) => probe.ka # probe.kb

\* C5: no run ends with an exception that nothing caught.
C5_AllFailuresCaught == \A s \in Sessions : ~uncaught[s]

\* C6 as stated: a key of the in-memory cache stays in it, with its value.
C6_NoEviction ==
  [][\A s \in Sessions : Preserved(cache[s], cache'[s])]_vars

\* C6 as amended: within a run the in-memory cache keeps every item with its
\* value, and a step that leaves the cache file well-formed keeps every item
\* the file had with its value.
C6_NoEvictionButFailedWrites ==
  [][/\ \A s \in Sessions : pc[s] # "idle" => Preserved(cache[s], cache'[s])
     /\ (FileOk(file) /\ FileOk(file')) => Preserved(FileMap(file), FileMap(file'))]_vars

\* a later run has added a second item to the cache and to the file
C6_Witness ==
  \E s \in Sessions :
    /\ runs[s] >= 2
    /\ Len(cache[s]) = 2
    /\ pc[s] = "show"
    /\ last[s].kind = "stored"
    /\ FileOk(file)
    /\ FileMap(file) = cache[s]

\* C7: a save replaces the whole file by the saver's in-memory cache: an item
\* of the file that the saver does not hold is gone after the save.
C7_SaveReplacesFile ==
  [][\A s \in Sessions :
       (pc[s] = "page" /\ pc'[s] = "show" /\ last'[s].kind = "stored") =>
         /\ file' = FileOf(Dump(cache'[s]))
         /\ FileOk(file) =>
              \A k \in Keys(FileMap(file)) :
                ~Has(cache'[s], k) => ~Has(FileMap(file'), k)]_vars

\* the lost update: an item one session wrote to the file is not in it
\* after the other session's save
C7_Witness ==
  /\ FileOk(file)
  /\ \E r \in saved : ~Has(FileMap(file), CacheKey(r[1], r[2]))

\* C8: load_cache after save_cache yields the mapping saved, and load_cache
\* yields the empty mapping when there is no file.
C8_RoundTrip ==
  /\ probe.pc = "rt_loaded" =>
       (~probe.out.raised /\ probe.out.val = probe.m)
  /\ probe.pc = "rt_missing" =>
       (~probe.out.raised /\ probe.out.val = <<>>)

\* two items with a backslash, a quote and a line feed went through the file
C8_Witness ==
  /\ probe.pc = "rt_loaded"
  /\ probe.m = << <<<<BS, "n">>, <<DQ, NL>>>>, <<<<BS, "n", "n">>, <<BS, "n">>>> >>
  /\ probe.out.val = probe.m

\* C9 as stated: a miss on a PDF of N pages sends exactly pages 1..N, and
\* returns and stores the kept responses joined in page order.
C9_OneRequestPerPage ==
  \A s \in Sessions :
    (pc[s] = "show" /\ last[s].kind \in {"render_failed", "stored", "save_failed"}) =>
      /\ reqs[s] = FirstPages(total[s])
      /\ ret[s] = Str(Expected(resps[s]))
      /\ Has(cache[s], KeyOf(last[s]))
      /\ Get(cache[s], KeyOf(last[s])) = Expected(resps[s])

\* C9 as amended: a miss sends the pages in page order, each once, N at most;
\* a page that fails to render ends the search with fewer requests, None
\* returned and nothing stored; else all N are sent and the kept responses,
\* joined in page order, are stored, and returned if the file was written.
C9_RequestsInPageOrder ==
  \A s \in Sessions :
    /\ pc[s] = "page" =>
         /\ page[s] <= total[s] + 1
         /\ reqs[s] = FirstPages(page[s] - 1)
         /\ Len(resps[s]) = Len(reqs[s])
    /\ (pc[s] = "show" /\ last[s].kind = "render_failed") =>
         /\ Len(reqs[s]) < total[s]
         /\ reqs[s] = FirstPages(Len(reqs[s]))
         /\ ret[s] = NoneVal
         /\ ~Has(cache[s], KeyOf(last[s]))
    /\ (pc[s] = "show" /\ last[s].kind \in {"stored", "save_failed"}) =>
         /\ reqs[s] = FirstPages(total[s])
         /\ Has(cache[s], KeyOf(last[s]))
         /\ Get(cache[s], KeyOf(last[s])) = Expected(resps[s])
         /\ ret[s] = IF last[s].kind = "stored" THEN Str(Expected(resps[s])) ELSE NoneVal

\* two pages were sent, both answered, and the answers stored in page order
C9_Witness ==
  \E s \in Sessions :
    /\ pc[s] = "show"
    /\ last[s].kind = "stored"
    /\ reqs[s] = <<1, 2>>
    /\ ret[s] = Str(PageText(1) \o <<NL>> \o PageText(2))

\* the store of a search whose every page failed or came back empty
StoresNothingFound(s) ==
  /\ pc[s] = "page"
  /\ pc'[s] = "show"
  /\ page[s] > total[s]
  /\ AllFailed(resps[s])

\* a search of a pair saved with the empty result is a hit that sends nothing
EmptyResultServed(s) ==
  \A r \in saved :
    (r[3] = <<>> /\ Searches(s, r[1], r[2])) =>
      (last'[s].kind = "hit" /\ ret'[s] = Str(<<>>) /\ reqs'[s] = <<>>)

\* and the hit is shown as "no relevant news"
EmptyResultShown(s) ==
  (pc[s] = "show" /\ pc'[s] # "show" /\ last[s].kind = "hit" /\ ret[s] = Str(<<>>)) =>
    ("no_news" \in banners'[s] /\ "success" \notin banners'[s] \ banners[s])

====
